---- MODULE Spec2Model ----
(***************************************************************************)
(* A model of sellac/peswrapper.py: the PES / InternalPES wrappers around  *)
(* an atomic structure and its energy/force evaluator.                     *)
(*                                                                         *)
(* The structure has one Cartesian degree of freedom, so every vector of   *)
(* the code (x, g, dx, ...) is a 1-tuple <<n>> and Python's None is the    *)
(* empty tuple <<>>.  The evaluator is the quadratic f(p) = Kh p^2.  An    *)
(* operation of the code is an operator over the record W of the object's  *)
(* fields plus the registers of the running call (return values, pending   *)
(* exception, the inputs still to be consumed), composed as the code       *)
(* composes its calls; a raised exception stops the rest of the call.      *)
(***************************************************************************)
EXTENDS Integers, Sequences, FiniteSets, TLC

VARIABLES
    mode,        \* "cart": class PES, "int": class InternalPES
    apos,        \* self.atoms.positions
    dpos,        \* self.dummies.positions (<<>>: there are no dummies)
    int,         \* self.int: which internal-coordinate set is in use
    neval,       \* self.neval, counted from the start of the last operation
    curr,        \* self.curr: [x, f, g]
    last,        \* self.last
    H,           \* self.H: the approximate Hessian (<<>>: none available)
    savepoint,   \* self.savepoint: [apos, dpos]
    bad_int,     \* self.bad_int (<<>>: None)
    ode,         \* the LSODA integrator and the position of set_x's loop
    trace,       \* the calls made by the last operation, in order
    ret          \* what the last operation returned or raised

vars == <<mode, apos, dpos, int, neval, curr, last, H, savepoint, bad_int,
          ode, trace, ret>>

\* ------------------------------------------------------------------ bounds
MaxPos == 1      \* Cartesian positions are 0..MaxPos; the structure starts at 0
MaxGen == 1      \* internal-coordinate sets are numbered 0..MaxGen
MaxProbes == 1   \* finite-difference probes of one diag call
MaxFev == 2      \* function evaluations one integrator step may consume
Kh == 1          \* the synthetic evaluator is f(p) = Kh * p * p
OdeCeiling == 1000

Pos == 0..MaxPos
Gen == 0..MaxGen
None == <<>>
Htrue == 2 * Kh

\* ------------------------------------------------------- external objects
\* The energy/force evaluator (atoms.get_potential_energy, atoms.get_forces).
Energy(p) == Kh * p * p
Gradient(p) == 2 * Kh * p

\* Internals.calc(): the value of the internal coordinate of set k at p.
Calc(k, p) == p + k

\* ApproximateHessian.update(dx, dg): in one dimension the secant condition
\* H dx = dg determines the update; a zero displacement carries no information.
H_update(h, dx, dg) == IF dx = 0 THEN h ELSE <<dg \div dx>>

\* One entry of trace.
Ev(e, a, b) == [e |-> e, a |-> a, b |-> b]
Bit(c) == IF c THEN 1 ELSE 0

\* The object's fields as one record, with the registers of a call.
Obj == [mode |-> mode, apos |-> apos, dpos |-> dpos, int |-> int,
        neval |-> neval, curr |-> curr, last |-> last, H |-> H,
        savepoint |-> savepoint, bad_int |-> bad_int]

Call(failIn, outs) ==
    [mode |-> mode, apos |-> apos, dpos |-> dpos, int |-> int,
     neval |-> 0, curr |-> curr, last |-> last, H |-> H,
     savepoint |-> savepoint, bad_int |-> bad_int,
     trace |-> <<>>, exc |-> "", val |-> <<>>,
     failIn |-> failIn,   \* the failIn-th evaluator call raises (0: none does)
     outs |-> outs,       \* how the coming InternalPES.set_x calls end
     rf |-> <<>>, rg |-> <<>>, rupd |-> FALSE,
     rdx0 |-> 0, rdx1 |-> 0, rgpar |-> <<>>, rpred |-> <<>>]

\* Sequencing of calls: F runs on the state W leaves unless W raised.
Then(W, F(_)) == IF W.exc # "" THEN W ELSE F(W)

\* ------------------------------------------------------------------- PES
\* PES.save
save(W) == [W EXCEPT !.savepoint = [apos |-> <<W.apos>>, dpos |-> W.dpos]]

\* PES.restore
restore(W) ==
    IF W.savepoint.apos = None
    THEN [W EXCEPT !.exc = "AssertionError"]
    ELSE [W EXCEPT !.apos = W.savepoint.apos[1],
                   !.dpos = IF W.savepoint.dpos # None
                            THEN W.savepoint.dpos ELSE @]

\* PES.get_x / InternalPES.get_x
get_x(W) == IF W.mode = "cart" THEN <<W.apos>> ELSE <<Calc(W.int, W.apos)>>

\* PES.eval / InternalPES.eval: neval is counted before the evaluator runs.
eval(W) ==
    LET W1 == [W EXCEPT !.neval = @ + 1,
                        !.trace = Append(@, Ev("eval", W.apos, 0))]
    IN  IF W.failIn = 1
        THEN [W1 EXCEPT !.exc = "EvaluatorError", !.failIn = 0]
        ELSE [W1 EXCEPT !.failIn = IF @ > 1 THEN @ - 1 ELSE @,
                        !.rf = <<Energy(W.apos)>>,
                        !.rg = <<Gradient(W.apos)>>]

\* StoreSnapshot without the promotion of the previous snapshot.
StoreSnapshot_nopromote(W, old, x, new_point) ==
    IF new_point
    THEN [W EXCEPT !.curr = [x |-> x, f |-> W.rf, g |-> W.rg],
                   !.trace = Append(@, Ev("cache", 0, Bit(x # old.x))),
                   !.rupd = TRUE]
    ELSE [W EXCEPT !.curr.f = W.rf, !.curr.g = W.rg,
                   !.trace = Append(@, Ev("cache", 0, 0)),
                   !.rupd = TRUE]

\* PES._update / InternalPES._update.  The basis matrices (drdx, Ucons, Unred,
\* Ufree, L, B, Binv) are functions of the position and are stored with x.
StoreSnapshot(W, old, x, new_point) ==
    IF new_point
    THEN [W EXCEPT !.last = old,
                   !.curr = [x |-> x, f |-> W.rf, g |-> W.rg],
                   !.trace = Append(@, Ev("cache", 1, Bit(x # old.x))),
                   !.rupd = TRUE]
    ELSE [W EXCEPT !.curr.f = W.rf, !.curr.g = W.rg,
                   !.trace = Append(@, Ev("cache", 0, 0)),
                   !.rupd = TRUE]

\* _update without the comparison of x with curr['x']: every call is a new point.
_update_uncached(W, feval) ==
    Then(eval(W), LAMBDA W1 : StoreSnapshot(W1, W.curr, get_x(W), TRUE))

\* _update without "Force change feval": a new point is stored unevaluated.
_update_lazy(W, feval) ==
    LET x == get_x(W)
        same == W.curr.x # None /\ x = W.curr.x
        new_point == ~same
    IN  IF same /\ ~(feval /\ W.curr.f = None)
        THEN [W EXCEPT !.rupd = FALSE]
        ELSE Then(IF feval THEN eval(W) ELSE [W EXCEPT !.rf = None, !.rg = None],
                  LAMBDA W1 : StoreSnapshot(W1, W.curr, x, new_point))

\* _update that evaluates again when asked for no evaluation at the cached
\* point whose energy is already known.
_update_reeval(W, feval) ==
    LET x == get_x(W)
        same == W.curr.x # None /\ x = W.curr.x
        new_point == ~same
        fe == feval \/ (new_point /\ ~feval) \/ (same /\ ~feval /\ W.curr.f # None)
    IN  IF same /\ ~fe
        THEN [W EXCEPT !.rupd = FALSE]
        ELSE Then(IF fe THEN eval(W) ELSE [W EXCEPT !.rf = None, !.rg = None],
                  LAMBDA W1 : StoreSnapshot(W1, W.curr, x, new_point))

_update(W, feval) ==
    LET x == get_x(W)
        same == W.curr.x # None /\ x = W.curr.x
        new_point == ~same
        fe == feval \/ (new_point /\ ~feval)     \* "Force change feval"
    IN  IF same /\ ~(feval /\ W.curr.f = None)
        THEN [W EXCEPT !.rupd = FALSE]
        ELSE Then(IF fe THEN eval(W) ELSE [W EXCEPT !.rf = None, !.rg = None],
                  LAMBDA W1 : StoreSnapshot(W1, W.curr, x, new_point))

\* _update_H that also does nothing while there is no Hessian yet.
_update_H_needsH(W, dx, dg) ==
    IF W.last.x = None \/ W.last.g = None \/ W.H = None
    THEN W
    ELSE [W EXCEPT !.H = H_update(@, dx, dg),
                   !.trace = Append(@, Ev("H.update", dx, dg))]

\* PES._update_H
_update_H(W, dx, dg) ==
    IF W.last.x = None \/ W.last.g = None
    THEN W
    ELSE [W EXCEPT !.H = H_update(@, dx, dg),
                   !.trace = Append(@, Ev("H.update", dx, dg))]

\* PES.get_f: the returned energy is left in rf.
get_f(W) == Then(_update(W, TRUE), LAMBDA W1 : [W1 EXCEPT !.rf = W1.curr.f])

\* PES.get_g: the returned gradient is left in rg.
get_g(W) ==
    Then(_update(W, TRUE),
         LAMBDA W1 : IF W1.curr.g = None
                     THEN [W1 EXCEPT !.exc = "AttributeError"]
                     ELSE [W1 EXCEPT !.rg = W1.curr.g])

\* PES.get_Unred, PES.get_Ufree, PES.get_Ucons
get_Ufree(W) == _update(W, FALSE)

\* set_x that takes the difference after the positions are assigned.
PES_set_x_late(W, target) ==
    LET W1 == [W EXCEPT !.apos = target[1]]
        diff == target[1] - get_x(W1)[1]
    IN  [W1 EXCEPT !.rdx0 = diff, !.rdx1 = diff, !.rgpar = W.curr.g,
                   !.trace = Append(@, Ev("set_x", target[1], 0))]

\* PES.set_x.  Returns (rdx0, rdx1, rgpar).
PES_set_x(W, target) ==
    LET diff == target[1] - get_x(W)[1]
    IN  [W EXCEPT !.apos = target[1],
                  !.rdx0 = diff, !.rdx1 = diff, !.rgpar = W.curr.g,
                  !.trace = Append(@, Ev("set_x", target[1], 0))]

\* InternalPES.set_x, taken as one step: o = Head(W.outs) says how the
\* integration loop ends (see OdeStep below) and whether the integrator had
\* advanced (o.adv) from the start towards the goal by then.  The dummies
\* move with the atoms.
Toward(start, goal, adv) ==
    IF adv = 0 \/ goal = start THEN start
    ELSE IF goal > start THEN start + 1 ELSE start - 1

Moved(W, p) == [W EXCEPT !.apos = p,
                         !.dpos = IF @ = None THEN @ ELSE <<@[1] + (p - W.apos)>>]

\* The end of InternalPES.set_x: W has the positions the integrator left,
\* start is where the atoms were.
OdeEnd(W, target, o, start) ==
    CASE o.end = "finished" ->
           [W EXCEPT !.bad_int = None,
                     !.rdx0 = W.apos - start, !.rdx1 = W.apos - start,
                     !.trace = Append(@, Ev("set_x", target[1], 0))]
      [] o.end = "bad" ->
           [W EXCEPT !.bad_int = <<1>>,
                     !.rdx0 = W.apos - start, !.rdx1 = W.apos - start,
                     !.trace = Append(@, Ev("set_x", target[1], 1))]
      [] OTHER ->          \* either RuntimeError: see OdeStep, OdeExit
           [W EXCEPT !.bad_int = None,
                     !.exc = "RuntimeError",
                     !.trace = Append(@, Ev("set_x", target[1], 0))]

InternalPES_set_x(W, target) ==
    IF W.curr.g = None
    THEN [W EXCEPT !.exc = "TypeError"]       \* Binv @ None, before the loop
    ELSE
      LET o == Head(W.outs)
          land == IF o.end = "finished" THEN target[1] - W.int
                  ELSE Toward(W.apos, target[1] - W.int, o.adv)
      IN  OdeEnd(Moved([W EXCEPT !.outs = Tail(@), !.rgpar = W.curr.g], land),
                 target, o, W.apos)

set_x(W, target) ==
    IF W.mode = "cart" THEN PES_set_x(W, target) ELSE InternalPES_set_x(W, target)

\* PES._calc_eg: nothing restores the positions when set_x or eval raises.
_calc_eg(W, x) ==
    Then(set_x(save(W), x),
         LAMBDA W2 : Then(eval(W2), LAMBDA W3 : restore(W3)))

\* The eigensolver's calls of NumericalHessian: n times _calc_eg at the
\* trial point x0 + d, as long as none raises.
RECURSIVE Probes(_, _, _, _)
Probes(W, x0, d, n) ==
    IF n = 0 \/ W.exc # "" THEN W
    ELSE Probes(_calc_eg(W, <<x0[1] + d>>), x0, d, n - 1)

\* The trial displacement (eta * v) at the Cartesian point p.
ProbeDisp(p) == IF p < MaxPos THEN 1 ELSE -1

\* The end of PES.diag: the iterates refresh the Hessian.
Refresh(W, d, g0) ==
    [W EXCEPT !.H = H_update(@, d, W.rg[1] - g0[1]),
              !.trace = Append(@, Ev("H.refresh", d, W.rg[1] - g0[1]))]

\* PES.diag up to the eigensolver: get_Ufree(), get_g().
DiagStart(W) ==
    Then(get_Ufree([W EXCEPT !.trace = Append(@, Ev("diag", 0, 0))]),
         LAMBDA W1 : get_g(W1))

\* PES.diag from the eigensolver on.  n: the number of points it probes.
DiagProbes(W2, n) ==
    Then(Probes(W2, get_x(W2), ProbeDisp(W2.apos), n),
         LAMBDA W3 : Refresh(W3, ProbeDisp(W2.apos), W2.rg))

\* PES.diag
diag(W, n) == Then(DiagStart(W), LAMBDA W2 : DiagProbes(W2, n))

\* get_df_pred without the factor 1/2 of the second-order term.
get_df_pred_nohalf(W, dx, g, B) ==
    IF B = None THEN [W EXCEPT !.rpred = None]
    ELSE Then(IF W.mode = "cart" THEN W ELSE _update(W, FALSE),
              LAMBDA W1 : [W1 EXCEPT !.rpred = <<2 * g[1] * dx + 2 * dx * B[1] * dx>>])

\* PES.get_df_pred / InternalPES.get_df_pred.  rpred holds twice the predicted
\* change (g dx + dx H dx / 2 need not be whole), None without a Hessian.
\* InternalPES reads Unred first, which is an _update(False).
get_df_pred(W, dx, g, B) ==
    IF B = None THEN [W EXCEPT !.rpred = None]
    ELSE Then(IF W.mode = "cart" THEN W ELSE _update(W, FALSE),
              LAMBDA W1 : [W1 EXCEPT !.rpred = <<2 * g[1] * dx + dx * B[1] * dx>>])

\* df_actual / df_pred in floating point: the pair <<numerator, denominator>>
\* (both doubled).  A zero denominator gives nan or inf and raises nothing.
Ratio(df_actual, pred) ==
    IF pred = None THEN None ELSE <<2 * df_actual, pred[1]>>

IsOne(r) == r # None /\ r[2] # 0 /\ r[1] = r[2]

\* PES.kick from the second get_f to the Hessian update: W3 is the state
\* set_x left, f0 the energy at the old point.  The ratio is left in val.
KickEnd(W5, W3, f0) ==
    Then(get_f(W5),
         LAMBDA W6 :
           _update_H([W6 EXCEPT !.val = Ratio(W6.rf[1] - f0[1], W5.rpred)],
                     W3.rdx1, W5.rg[1] - W3.rgpar[1]))

\* PES.kick up to the Hessian update.
KickMove(W, dx) ==
    Then(get_f(W),
         LAMBDA W1 :
           Then(get_g(W1),
                LAMBDA W2 :
                  Then(set_x(W2, <<get_x(W)[1] + dx>>),
                       LAMBDA W3 :
                         Then(get_df_pred(W3, W3.rdx0, W2.rg, W2.H),
                              LAMBDA W4 :
                                Then(get_g(W4),
                                     LAMBDA W5 : KickEnd(W5, W3, W1.rf))))))

\* The rest of PES.kick: "if diag: self.diag(**diag_kwargs)".
KickDiagnose(W7, dodiag, n) == Then(W7, LAMBDA W : IF dodiag THEN diag(W, n) ELSE W)

\* PES.kick.
PES_kick(W, dx, dodiag, n) == KickDiagnose(KickMove(W, dx), dodiag, n)

\* InternalPES.update_internals.  newint: the coordinate set found at the
\* current geometry.  With Calc linear the Hessian tensors vanish and the
\* re-based Hessian is the old one.
Rebase(W, newint) ==
    [W EXCEPT !.int = newint,
              !.curr.x = <<Calc(newint, W.apos)>>,
              !.curr.g = <<Gradient(W.apos)>>,
              !.trace = @ \o <<Ev("update_internals", newint, 0),
                               Ev("cache", 0,
                                  Bit(<<Calc(newint, W.apos)>> # W.curr.x))>>]

update_internals(W, dx, newint) ==
    Then(_update(W, TRUE), LAMBDA W1 : Rebase(W1, newint))

\* InternalPES.kick, after PES.kick has left W1.
InternalPES_kick(W1, dx, newint) ==
    Then(W1,
         LAMBDA W :
           IF W.bad_int # None
           THEN Then(update_internals(W, dx, newint),
                     LAMBDA W2 : [W2 EXCEPT !.bad_int = None])
           ELSE W)

\* Whether the coordinate set found by update_internals matters to the kick.
Regenerates(W1) == W1.mode = "int" /\ W1.exc = "" /\ W1.bad_int # None

\* ------------------------------------------------------------ operations
NoSnapshot == [x |-> None, f |-> None, g |-> None]
Idle == [pc |-> "idle", status |-> "none", nfev |-> 0, y |-> 0, goal |-> 0,
         start |-> 0]

\* How one InternalPES.set_x call can end.
Outcomes ==
    {[end |-> "finished", adv |-> 1, bad |-> 0],
     [end |-> "bad", adv |-> 1, bad |-> 1],
     [end |-> "raised", adv |-> 1, bad |-> 0]}

NonFatal == {o \in Outcomes : o.end \in {"finished", "bad"}}

\* How the set_x calls of n probes can end: a call follows only calls that
\* returned.
RECURSIVE OutSeqs(_)
OutSeqs(n) ==
    IF mode = "cart" THEN {<<>>}
    ELSE IF n = 0 THEN {<<>>}
    ELSE {<<o>> : o \in Outcomes \ NonFatal}
         \cup {<<o>> \o t : o \in NonFatal, t \in OutSeqs(n - 1)}
FirstOuts == IF mode = "cart" THEN {<<>>} ELSE {<<o>> : o \in NonFatal}

\* How n probes can go, as <<fail, outs>>: either no evaluation raises
\* (fail = 0) or that of the fail-th probe does, after fail set_x calls that
\* returned.
Scenarios(n) ==
    IF mode = "cart" THEN {<<k, <<>>>> : k \in 0..n}
    ELSE {<<0, t>> : t \in OutSeqs(n)}
         \cup UNION {{<<k, t>> : t \in [1..k -> NonFatal]} : k \in 1..n}

\* The state after construction: PES.__init__ / InternalPES.__init__.
Init ==
    /\ mode \in {"cart", "int"}
    /\ apos = 0
    /\ dpos = IF mode = "cart" THEN None ELSE <<apos>>
    /\ int = 0
    /\ neval = 0
    /\ curr = NoSnapshot
    /\ last = NoSnapshot
    /\ H \in IF mode = "cart" THEN {None, <<Htrue>>, <<Htrue + 1>>}
                              ELSE {<<Htrue>>}
    /\ savepoint = [apos |-> None, dpos |-> None]
    /\ bad_int = None
    /\ ode = Idle
    /\ trace = <<>>
    /\ ret = [op |-> "init", arg |-> <<>>, exc |-> "", val |-> <<>>]

\* The object after the call op(arg) that ended in W, returning val.
Apply(W, op, arg, val) ==
    /\ W.apos \in Pos
    /\ mode' = mode
    /\ apos' = W.apos
    /\ dpos' = W.dpos
    /\ int' = W.int
    /\ neval' = W.neval
    /\ curr' = W.curr
    /\ last' = W.last
    /\ H' = W.H
    /\ savepoint' = W.savepoint
    /\ bad_int' = W.bad_int
    /\ ode' = ode
    /\ trace' = W.trace
    /\ ret' = [op |-> op, arg |-> arg, exc |-> W.exc,
               val |-> IF W.exc = "" THEN val ELSE <<>>]

\* (A call's result is bound by \E over a singleton, so that it is computed once.)
GetF ==
    \E fail \in 0..1 :
        \E W \in {get_f(Call(fail, <<>>))} : Apply(W, "get_f", <<>>, W.rf)

GetG ==
    \E fail \in 0..1 :
        \E W \in {get_g(Call(fail, <<>>))} : Apply(W, "get_g", <<>>, W.rg)

GetUfree ==
    \E fail \in 0..1 :
        \E W \in {get_Ufree(Call(fail, <<>>))} : Apply(W, "get_Ufree", <<>>, <<>>)

\* set_x(target): the target is the coordinate of the Cartesian point p.
SetX(p) ==
    \E outs \in OutSeqs(1), target \in {IF mode = "cart" THEN p ELSE Calc(int, p)} :
        \E W \in {set_x(Call(0, outs), <<target>>)} :
            Apply(W, "set_x", <<target>>, <<W.rdx0, W.rdx1>>)

\* The end of a kick: InternalPES.kick goes on after PES.kick has left W1.
KickReturns(W1, dx, dodiag) ==
    \E newint \in IF Regenerates(W1) THEN Gen ELSE {int} :
        \E W \in {IF mode = "cart" THEN W1 ELSE InternalPES_kick(W1, dx, newint)} :
            Apply(W, "kick", <<dx, Bit(dodiag)>>, W.val)

\* kick(dx, diag=False): no evaluation raises (W0), or one of those the call
\* makes does.
Kick(dx) ==
    \E outs \in OutSeqs(1) :
        \E W0 \in {PES_kick(Call(0, outs), dx, FALSE, 0)} :
            \/ KickReturns(W0, dx, FALSE)
            \/ \E fail \in 1..W0.neval :
                  \E W1 \in {PES_kick(Call(fail, outs), dx, FALSE, 0)} :
                      KickReturns(W1, dx, FALSE)

\* kick(dx, diag=True).  A call that raises before diag starts ends as
\* Kick(dx) does, so only the calls that get to diag are taken here: o1 is
\* how the kick's own set_x ends and W7 the state at "if diag:"; then either
\* no evaluation raises, or that of the fail-th probe does.
KickDiag(dx) ==
    \E o1 \in FirstOuts :
        \E W7 \in {KickMove(Call(0, o1), dx)} :
            /\ W7.exc = ""
            /\ \E sc \in Scenarios(MaxProbes) :
                 \E W1 \in {KickDiagnose([W7 EXCEPT !.failIn = sc[1],
                                                      !.outs = sc[2]],
                                            TRUE, MaxProbes)} :
                    KickReturns(W1, dx, TRUE)

\* diag(): its first evaluation (if the point is not cached) raises, or the
\* probes go one of the ways of Scenarios.
Diag ==
    \/ \E W \in {DiagStart(Call(1, <<>>))} :
          W.exc # "" /\ Apply(W, "diag", <<MaxProbes>>, <<>>)
    \/ \E W2 \in {DiagStart(Call(0, <<>>))} :
          \E sc \in Scenarios(MaxProbes) :
             \E W \in {DiagProbes([W2 EXCEPT !.failIn = sc[1], !.outs = sc[2]],
                                   MaxProbes)} :
                Apply(W, "diag", <<MaxProbes>>, <<>>)

UpdateInternals ==
    /\ mode = "int"
    /\ \E fail \in 0..1, newint \in Gen :
           \E W \in {update_internals(Call(fail, <<>>), 0, newint)} :
               Apply(W, "update_internals", <<>>, <<>>)

Steps == {d \in {-1, 0, 1} : apos + d \in Pos}

Next ==
    \/ GetF
    \/ GetG
    \/ GetUfree
    \/ \E p \in Pos : SetX(p)
    \/ \E dx \in Steps : Kick(dx)
    \/ \E dx \in Steps : KickDiag(dx)
    \/ Diag
    \/ UpdateInternals

Spec == Init /\ [][Next]_vars

\* ------------------------------------ the loop of InternalPES.set_x, by step
\* ode.pc: "idle" (no call yet), "loop" (at the while), "after" (past the
\* loop), "returned", "raised".  ode.y is the integrator's point, ode.goal the
\* Cartesian point of the target.
\* The ceiling test with >= for >.
TooLong_ge(nfev) == nfev >= OdeCeiling

TooLong(nfev) == nfev > OdeCeiling

\* set_x(target) up to the loop: y0 is built (Binv @ curr['g']) and LSODA set up.
OdeBegin(p) ==
    /\ mode = "int"
    /\ ode.pc = "idle"
    /\ IF curr.g = None
       THEN /\ ode' = [Idle EXCEPT !.pc = "raised"]
            /\ ret' = [op |-> "set_x", arg |-> <<Calc(int, p)>>,
                       exc |-> "TypeError", val |-> <<>>]
       ELSE /\ ode' = [pc |-> "loop", status |-> "running", nfev |-> 0,
                       y |-> apos, goal |-> p, start |-> apos]
            /\ ret' = [op |-> "set_x", arg |-> <<Calc(int, p)>>,
                       exc |-> "", val |-> <<>>]
    /\ trace' = <<>>
    /\ neval' = 0
    /\ UNCHANGED <<mode, apos, dpos, int, curr, last, H, savepoint,
                   bad_int>>

\* One turn of the loop: ode.step() with k evaluations of _q_ode (which moves
\* the atoms and dummies), the check for bad internals, the ceiling.
OdeStep ==
    /\ ode.pc = "loop"
    /\ ode.status = "running"
    /\ \E k \in 1..MaxFev, adv \in {0, 1}, bad \in {0, 1},
          st \in {"running", "finished", "failed"} :
         LET y == Toward(ode.y, ode.goal, adv)
             nfev == ode.nfev + k
         IN  /\ st = "finished" => y = ode.goal
             /\ apos' = y
             /\ dpos' = <<dpos[1] + (y - apos)>>
             /\ bad_int' = IF bad = 1 THEN <<1>> ELSE None
             /\ IF bad = 1
                THEN /\ ode' = [ode EXCEPT !.pc = "after", !.status = st,
                                           !.nfev = nfev, !.y = y]
                     /\ ret' = ret
                ELSE IF TooLong(nfev)
                THEN /\ ode' = [ode EXCEPT !.pc = "raised", !.status = st,
                                           !.nfev = nfev, !.y = y]
                     /\ ret' = [ret EXCEPT !.exc = "RuntimeError: taking too long"]
                ELSE /\ ode' = [ode EXCEPT
                                  !.pc = IF st = "running" THEN "loop" ELSE "after",
                                  !.status = st, !.nfev = nfev, !.y = y]
                     /\ ret' = ret
    /\ UNCHANGED <<mode, int, neval, curr, last, H, savepoint, trace>>

\* Past the loop: raise if the integrator failed, else apply y and return.
OdeExit ==
    /\ ode.pc = "after"
    /\ IF ode.status = "failed"
       THEN /\ ode' = [ode EXCEPT !.pc = "raised"]
            /\ ret' = [ret EXCEPT !.exc = "RuntimeError: failed to converge"]
            /\ UNCHANGED <<apos, dpos>>
       ELSE /\ ode' = [ode EXCEPT !.pc = "returned"]
            /\ ret' = [ret EXCEPT !.val = <<ode.y - ode.start, ode.y - ode.start>>]
            /\ apos' = ode.y
            /\ dpos' = <<dpos[1] + (ode.y - apos)>>
    /\ UNCHANGED <<mode, int, neval, curr, last, H, savepoint, bad_int, trace>>

\* What precedes the call of set_x (an evaluation gives curr['g']).
OdeGetF == ode.pc = "idle" /\ GetF

InitODE == Init /\ mode = "int"

NextODE ==
    \/ OdeGetF
    \/ \E p \in Pos : OdeBegin(p)
    \/ OdeStep
    \/ OdeExit

SpecODE == InitODE /\ [][NextODE]_vars /\ WF_vars(OdeStep) /\ WF_vars(OdeExit)

\* ------------------------------------------------------------- properties
\* The last operation returned (did not raise).
Returned(op) == ret.op = op /\ ret.exc = ""

\* C1: once get_f() or get_g() has returned, a get_f()/get_g() that follows
\* it (nothing having moved the structure in between) leaves neval unchanged
\* and returns; so does, by induction, any sequence of them.
C1_IdempotentCaching ==
    [][(/\ ret.op \in {"get_f", "get_g"}
        /\ ret.exc = ""
        /\ ret'.op \in {"get_f", "get_g"})
         => (neval' = 0 /\ ret'.exc = "" /\ trace' = <<>>)]_vars

\* A get_f()/get_g() that was answered from the cache: it returned without
\* calling anything, at the position of an earlier read.
C1_Witness ==
    /\ ret.op \in {"get_f", "get_g"}
    /\ ret.exc = ""
    /\ ret.val # None
    /\ trace = <<>>
    /\ neval = 0
    /\ ret.val = curr.f \/ ret.val = curr.g

\* C5 as stated: _update(feval=False) (here get_Ufree) when the cached point
\* already has an energy evaluates again, so neval increases.
C5_AsStated ==
    [][(curr.f # None /\ ret'.op = "get_Ufree" /\ ret'.exc = "")
         => neval' = 1]_vars

\* C5 amended: a get_Ufree() that returns has evaluated exactly once when the
\* position is not the cached one (or nothing is cached), and not at all when
\* it is the cached one; in both cases curr then holds this position with its
\* energy and gradient.
C5_ForcedAtNewPointOnly ==
    [][(ret'.op = "get_Ufree" /\ ret'.exc = "")
         => /\ neval' = Bit(curr.x = None \/ curr.x # get_x(Obj))
            /\ curr'.x = get_x(Obj)
            /\ curr'.f = <<Energy(apos)>>]_vars

\* A get_Ufree() at a position that was not the cached one: it evaluated.
C5_Witness ==
    /\ Returned("get_Ufree")
    /\ Len(trace) = 2
    /\ trace[1].e = "eval"
    /\ trace[2] = Ev("cache", 1, 1)
    /\ last.x # None

\* C7: in Cartesian mode get_x() right after set_x(target) is target, and the
\* displacement set_x returns is target minus the position before the call.
C7_CartesianRoundTrip ==
    [][(mode = "cart" /\ ret'.op = "set_x")
         => /\ ret'.exc = ""
            /\ get_x(Obj)' = ret'.arg
            /\ ret'.val = <<ret'.arg[1] - get_x(Obj)[1],
                            ret'.arg[1] - get_x(Obj)[1]>>]_vars

\* A Cartesian set_x that moved the structure.
C7_Witness ==
    /\ mode = "cart"
    /\ Returned("set_x")
    /\ ret.val[1] # 0
    /\ get_x(Obj) = ret.arg

\* C10: whenever curr['x'] is set, curr['f'] and curr['g'] are set.
C10_NoLazySnapshot == curr.x # None => (curr.f # None /\ curr.g # None)

\* A no-evaluation update at a new position has stored a snapshot.
C10_Witness ==
    /\ Returned("get_Ufree")
    /\ trace # <<>>
    /\ curr.x = get_x(Obj)
    /\ curr.f # None
    /\ curr.g # None

\* The entries of trace made by e.
Events(e) == {i \in DOMAIN trace : trace[i].e = e}
First(S) == CHOOSE i \in S : \A j \in S : i <= j

\* C2 as stated: once a probe of diag has begun (a set_x after the start of
\* diag), the operation leaves the atoms and dummies where save() recorded
\* them, whether it returns or raises.
C2_AsStated ==
    (/\ ret.op \in {"diag", "kick"}
     /\ \E i \in Events("diag") : \E j \in Events("set_x") : i < j)
    => (<<apos>> = savepoint.apos /\ dpos = savepoint.dpos)

\* The operations that call _update once and (update_internals) re-base curr.
SingleUpdate == {"get_f", "get_g", "get_Ufree", "update_internals"}

\* C3 as stated: curr['x'] changes exactly when the previous curr becomes
\* last, in every operation including update_internals.
C3_AsStated ==
    [][/\ \A i \in Events("cache")' : trace'[i].a = trace'[i].b
       /\ ret'.op \in SingleUpdate
            => IF curr'.x # curr.x THEN last' = curr ELSE last' = last]_vars

\* C3 amended: _update promotes curr to last exactly when it finds the
\* position changed (x differs from curr['x'], or nothing is cached), and
\* never replaces last otherwise; the only change of curr['x'] without a
\* promotion is the one update_internals makes when it re-expresses the
\* snapshot in the new coordinate set.
C3_PromotedByUpdate ==
    [][/\ \A i \in Events("cache")' :
            \/ trace'[i].a = trace'[i].b
            \/ /\ trace'[i].a = 0
               /\ i > 1
               /\ trace'[i - 1].e = "update_internals"
       /\ (ret'.op \in SingleUpdate /\ ret'.exc = "")
            => /\ last' = IF curr.x = None \/ curr.x # get_x(Obj)
                          THEN curr ELSE last
               /\ curr'.x = get_x(Obj)'
               /\ ret'.op # "update_internals" =>
                     (curr'.x # curr.x <=> (curr.x = None \/ curr.x # get_x(Obj)))]_vars

\* An InternalPES.kick that promoted the snapshot when it moved and then had
\* curr['x'] rewritten in place by update_internals.
C3_Witness ==
    /\ mode = "int"
    /\ Returned("kick")
    /\ \E i \in Events("cache") : trace[i] = Ev("cache", 1, 1)
    /\ \E i \in Events("cache") : trace[i] = Ev("cache", 0, 1)
    /\ last.x # None
    /\ last.x # curr.x

\* C4 as stated: an InternalPES.kick whose own set_x (the first of the call)
\* flagged bad internals has invoked update_internals and returns with
\* bad_int None.
C4_AsStated ==
    (/\ mode = "int"
     /\ Returned("kick")
     /\ Events("set_x") # {}
     /\ trace[First(Events("set_x"))].b = 1)
    => (Events("update_internals") # {} /\ bad_int = None)

\* C6 as stated: Cartesian kick(dx=0) with the exact Hessian returns ratio 1.
C6_AsStated ==
    [][(/\ mode = "cart"
        /\ H = <<Htrue>>
        /\ ret'.op = "kick"
        /\ ret'.exc = ""
        /\ ret'.arg[1] = 0)
         => IsOne(ret'.val)]_vars

\* C6 amended: a Cartesian kick with the exact Hessian returns the ratio of
\* two equal numbers, which is 1 whenever the predicted change is not zero;
\* for dx = 0 both are zero and the ratio is 0/0.
C6_OneUnlessZeroPredicted ==
    [][(/\ mode = "cart"
        /\ H = <<Htrue>>
        /\ ret'.op = "kick"
        /\ ret'.exc = "")
         => /\ ret'.val # None
            /\ ret'.val[1] = ret'.val[2]
            /\ ret'.val[2] # 0 => IsOne(ret'.val)
            /\ ret'.arg[1] = 0 => ret'.val = <<0, 0>>]_vars

\* A Cartesian kick with dx # 0 and the exact Hessian that returned ratio 1.
C6_Witness ==
    /\ mode = "cart"
    /\ Returned("kick")
    /\ ret.arg[1] # 0
    /\ H = <<Htrue>>
    /\ IsOne(ret.val)

\* C8: a Cartesian kick(dx, diag=False) with dx # 0 that returns has called,
\* in this order: the evaluator at x0 only if x0 was not cached, set_x to
\* x0 + dx, the evaluator once at x0 + dx, and the Hessian update once with
\* (dx, g(x0 + dx) - g(x0)), the latter left out only if last has no position
\* or no gradient.
C8_KickOrder ==
    [][(/\ mode = "cart"
        /\ ret'.op = "kick"
        /\ ret'.exc = ""
        /\ ret'.arg[1] # 0
        /\ ret'.arg[2] = 0)
         => LET x0 == apos
                dx == ret'.arg[1]
                atOld == IF curr.x = <<x0>> THEN <<>>
                         ELSE <<Ev("eval", x0, 0), Ev("cache", 1, 1)>>
                move == <<Ev("set_x", x0 + dx, 0), Ev("eval", x0 + dx, 0),
                          Ev("cache", 1, 1)>>
                upd == IF last'.x = None \/ last'.g = None THEN <<>>
                       ELSE <<Ev("H.update", dx,
                                 Gradient(x0 + dx) - Gradient(x0))>>
            IN  /\ trace' = atOld \o move \o upd
                /\ neval' = Len(atOld) \div 2 + 1
                /\ apos' = x0 + dx]_vars

\* A Cartesian kick with dx # 0 that had to evaluate the old point too and
\* then updated the Hessian.
C8_Witness ==
    /\ mode = "cart"
    /\ Returned("kick")
    /\ ret.arg[1] # 0
    /\ ret.arg[2] = 0
    /\ Len(trace) = 6
    /\ trace[6].e = "H.update"

\* How a call of InternalPES.set_x that got to its loop may stand: a step is
\* taken only while the integrator runs, no bad internals were found and the
\* evaluation count is within the ceiling; the call returns only after the
\* integrator finished or bad internals were found, without an exception;
\* it raises only if the integrator failed, or after a step without bad
\* internals that left the count above the ceiling.
LoopOutcome ==
    /\ ode.pc = "loop" =>
         /\ ode.status = "running"
         /\ ode.nfev <= OdeCeiling
         /\ bad_int = None
    /\ ode.pc = "returned" =>
         /\ ret.exc = ""
         /\ ode.status # "failed"
         /\ ode.status = "finished" \/ bad_int # None
         /\ apos = ode.y
    /\ (ode.pc = "raised" /\ ode.status # "none") =>
         \/ ode.status = "failed" /\ ret.exc = "RuntimeError: failed to converge"
         \/ /\ ode.nfev > OdeCeiling
            /\ bad_int = None
            /\ ret.exc = "RuntimeError: taking too long"

\* C9: the loop of InternalPES.set_x terminates (every step consuming at
\* least one evaluation): the call returns or raises, in the ways LoopOutcome
\* lists, and takes no step once the count exceeds the ceiling of 1000.
C9_LoopTerminates ==
    /\ (ode.pc = "loop") ~> (ode.pc \in {"returned", "raised"})
    /\ []LoopOutcome

\* A call that was stopped by the ceiling, and no earlier than the ceiling.
C9_Witness ==
    /\ ode.pc = "raised"
    /\ ret.exc = "RuntimeError: taking too long"
    /\ ode.nfev > OdeCeiling
    /\ ode.nfev <= OdeCeiling + MaxFev

====
